---- MODULE Spec2Model ----
(***************************************************************************)
(* Model of the droptables crate: the alias-table weighted sampler         *)
(* (src/src/walker.rs), the uniform sampler (src/src/sampler.rs) and the   *)
(* error taxonomy (src/src/error.rs).                                      *)
(*                                                                         *)
(* Weights, sums, scaled weights and bucket probabilities are f32 in the   *)
(* source.  They are modelled bit-faithfully: a value is a record          *)
(*   [cls, neg, m, e]   with cls in {"fin","inf","nan"}, sign bit neg and, *)
(* for a finite value, magnitude m * 2^e with m odd (m = 0, e = 0 for      *)
(* zero).  Every arithmetic operation rounds to nearest, ties to even, to  *)
(* 24 significant bits (fewer in the subnormal range), and overflows to    *)
(* infinity, as IEEE-754 binary32 does.                                    *)
(***************************************************************************)
EXTENDS Integers, Sequences, FiniteSets, TLC

(***************************************************************************)
(* binary32 format                                                         *)
(***************************************************************************)
MantBits == 24
MinQuantum == -149
MaxExp == 127

RECURSIVE Pow2(_)
Pow2(k) == IF k <= 0 THEN 1 ELSE 2 * Pow2(k - 1)

RECURSIVE BitLen(_)
BitLen(m) == IF m = 0 THEN 0 ELSE 1 + BitLen(m \div 2)

Max(a, b) == IF a >= b THEN a ELSE b

F32Zero == [cls |-> "fin", neg |-> FALSE, m |-> 0, e |-> 0]
F32Inf == [cls |-> "inf", neg |-> FALSE, m |-> 0, e |-> 0]
F32NaN == [cls |-> "nan", neg |-> FALSE, m |-> 0, e |-> 0]

\* The finite non-negative value m * 2^e, which must be representable,
\* in normal form (m odd, or zero).
RECURSIVE Fin(_, _)
Fin(m, e) ==
    IF m = 0 THEN F32Zero
    ELSE IF m % 2 = 0 THEN Fin(m \div 2, e + 1)
    ELSE [cls |-> "fin", neg |-> FALSE, m |-> m, e |-> e]

\* Round the exact non-negative value m * 2^e (+ a positive amount smaller
\* than 2^e when sticky) to the nearest binary32, ties to even.
RoundF32(m, e, sticky) ==
    IF m = 0 THEN F32Zero
    ELSE
      LET len == BitLen(m)
          q == Max(e + len - MantBits, MinQuantum)
          shift == q - e
      IN  IF shift <= 0 THEN
              IF e + len - 1 > MaxExp THEN F32Inf ELSE Fin(m, e)
          ELSE IF shift > 30 THEN F32Zero
          ELSE
            LET unit == Pow2(shift)
                keep == m \div unit
                rem == m % unit
                half == unit \div 2
                up == \/ rem > half
                      \/ rem = half /\ sticky
                      \/ rem = half /\ ~sticky /\ keep % 2 = 1
                r == IF up THEN keep + 1 ELSE keep
            IN  IF r = 0 THEN F32Zero
                ELSE IF q + BitLen(r) - 1 > MaxExp THEN F32Inf
                ELSE Fin(r, q)

WithSign(x, neg) == [x EXCEPT !.neg = neg]

\* |a| < |b| for finite a, b
MagLt(a, b) ==
    IF b.m = 0 THEN FALSE
    ELSE IF a.m = 0 THEN TRUE
    ELSE
      LET ta == a.e + BitLen(a.m)
          tb == b.e + BitLen(b.m)
      IN  IF ta # tb THEN ta < tb
          ELSE IF a.e >= b.e THEN a.m * Pow2(a.e - b.e) < b.m
          ELSE a.m < b.m * Pow2(b.e - a.e)

\* |a| + |b| for finite a, b, rounded
MagAdd(a, b) ==
    IF a.m = 0 THEN WithSign(b, FALSE)
    ELSE IF b.m = 0 THEN WithSign(a, FALSE)
    ELSE
      LET hi == IF a.e >= b.e THEN a ELSE b
          lo == IF a.e >= b.e THEN b ELSE a
          d == hi.e - lo.e
      IN  IF BitLen(hi.m) + d <= 30
          THEN RoundF32(hi.m * Pow2(d) + lo.m, lo.e, FALSE)
          ELSE
            LET k == 27 - BitLen(hi.m)
                sh == d - k
                lom == IF sh > 30 THEN 0 ELSE lo.m \div Pow2(sh)
                st == IF sh > 30 THEN TRUE ELSE lo.m % Pow2(sh) # 0
            IN  RoundF32(hi.m * Pow2(k) + lom, hi.e - k, st)

\* |a| - |b| for finite a, b with |a| >= |b|, rounded
MagSub(a, b) ==
    IF b.m = 0 THEN WithSign(a, FALSE)
    ELSE IF a.e < b.e
    THEN RoundF32(a.m - b.m * Pow2(b.e - a.e), a.e, FALSE)
    ELSE
      LET d == a.e - b.e
      IN  IF BitLen(a.m) + d <= 30
          THEN RoundF32(a.m * Pow2(d) - b.m, b.e, FALSE)
          ELSE
            LET k == 27 - BitLen(a.m)
                sh == d - k
                lom == IF sh > 30 THEN 0 ELSE b.m \div Pow2(sh)
                st == IF sh > 30 THEN TRUE ELSE b.m % Pow2(sh) # 0
            IN  IF st
                THEN RoundF32(a.m * Pow2(k) - lom - 1, a.e - k, TRUE)
                ELSE RoundF32(a.m * Pow2(k) - lom, a.e - k, FALSE)

\* a + b
F32Add(a, b) ==
    IF a.cls = "nan" \/ b.cls = "nan" THEN F32NaN
    ELSE IF a.cls = "inf" /\ b.cls = "inf"
    THEN IF a.neg = b.neg THEN a ELSE F32NaN
    ELSE IF a.cls = "inf" THEN a
    ELSE IF b.cls = "inf" THEN b
    ELSE IF a.neg = b.neg THEN WithSign(MagAdd(a, b), a.neg)
    ELSE IF MagLt(a, b) THEN WithSign(MagSub(b, a), b.neg)
    ELSE IF MagLt(b, a) THEN WithSign(MagSub(a, b), a.neg)
    ELSE F32Zero

\* a - b
F32Sub(a, b) == F32Add(a, WithSign(b, ~b.neg))

\* |a| * |b| for finite a, b with b.m < 2^12.  The exact product is formed
\* from the two 12-bit halves of a.m so that no intermediate value leaves
\* the integer range.
MagMul(a, b) ==
    IF BitLen(a.m) + BitLen(b.m) <= 30
    THEN RoundF32(a.m * b.m, a.e + b.e, FALSE)
    ELSE
      LET q == (a.m % 4096) * b.m
          h == (a.m \div 4096) * b.m + q \div 4096
          lw == q % 4096
          s == BitLen(h) + 12 - 30
          t == h * Pow2(12 - s) + lw \div Pow2(s)
      IN  RoundF32(t, a.e + b.e + s, lw % Pow2(s) # 0)

\* a * b, for b.m < 2^12
F32Mul(a, b) ==
    IF a.cls = "nan" \/ b.cls = "nan" THEN F32NaN
    ELSE IF a.cls = "inf" \/ b.cls = "inf"
    THEN IF (a.cls = "fin" /\ a.m = 0) \/ (b.cls = "fin" /\ b.m = 0)
         THEN F32NaN
         ELSE WithSign(F32Inf, a.neg # b.neg)
    ELSE WithSign(MagMul(a, b), a.neg # b.neg)

\* Long division: quotient bits of r / dv appended to q until q has 26
\* significant bits or the remainder is zero; k counts the appended bits.
RECURSIVE DivBits(_, _, _, _)
DivBits(q, r, dv, k) ==
    IF r = 0 \/ BitLen(q) >= MantBits + 2 THEN [q |-> q, r |-> r, k |-> k]
    ELSE IF 2 * r >= dv THEN DivBits(2 * q + 1, 2 * r - dv, dv, k + 1)
    ELSE DivBits(2 * q, 2 * r, dv, k + 1)

\* |a| / |b| for finite a, b with b # 0, rounded
MagDiv(a, b) ==
    IF a.m = 0 THEN F32Zero
    ELSE
      LET dv == DivBits(a.m \div b.m, a.m % b.m, b.m, 0)
      IN  RoundF32(dv.q, a.e - b.e - dv.k, dv.r # 0)

\* a / b
F32Div(a, b) ==
    IF a.cls = "nan" \/ b.cls = "nan" THEN F32NaN
    ELSE IF a.cls = "inf"
    THEN IF b.cls = "inf" THEN F32NaN ELSE WithSign(F32Inf, a.neg # b.neg)
    ELSE IF b.cls = "inf" THEN WithSign(F32Zero, a.neg # b.neg)
    ELSE IF b.m = 0
    THEN IF a.m = 0 THEN F32NaN ELSE WithSign(F32Inf, a.neg # b.neg)
    ELSE WithSign(MagDiv(a, b), a.neg # b.neg)

\* a < b (false when either is NaN; -0.0 and 0.0 are equal)
F32Lt(a, b) ==
    IF a.cls = "nan" \/ b.cls = "nan" THEN FALSE
    ELSE IF a.cls = "inf" THEN a.neg /\ ~(b.cls = "inf" /\ b.neg)
    ELSE IF b.cls = "inf" THEN ~b.neg
    ELSE IF a.m = 0 /\ b.m = 0 THEN FALSE
    ELSE IF a.neg # b.neg THEN a.neg /\ (a.m # 0 \/ b.m # 0)
    ELSE IF a.neg THEN MagLt(b, a)
    ELSE MagLt(a, b)

\* f32::is_sign_negative: the sign bit, also of -0.0 and of a NaN.
IsSignNegative(x) == x.neg

\* f32::is_finite
IsFinite(x) == x.cls = "fin"

\* x == 0.0 (true of 0.0 and of -0.0, false of NaN)
IsZero(x) == x.cls = "fin" /\ x.m = 0

\* n as f32, for n < 2^24
UsizeToF32(n) == Fin(n, 0)

F32One == Fin(1, 0)

Neg(x) == WithSign(x, TRUE)

\* The literal `1.0 - 1e-15` of walker.rs:94, evaluated in f32 as the code
\* does (1e-15f32 = 9444733 * 2^-73).
Threshold == F32Sub(F32One, Fin(9444733, -73))

\* f32::MAX
F32Max == Fin(16777215, 104)

(***************************************************************************)
(* Bounds of the model                                                     *)
(***************************************************************************)
MaxLen == 3
MaxWeight == 4
MaxCount == 4

\* Weights a caller can pass: small integers, f32::MAX, +infinity, NaN, and
\* values with the sign bit set (-0.0, -1.0 and a negative-signed NaN).
WeightVals ==
    {Fin(k, 0) : k \in 0..MaxWeight}
        \cup {F32Max, F32Inf, F32NaN, Neg(F32Zero), Neg(F32One), Neg(F32NaN)}

\* Slices of weights, indexed from 0 as in the source.
WeightSlices == UNION {[0..(n - 1) -> WeightVals] : n \in 0..MaxLen}

\* Values of `rng.random::<f32>()`: multiples of 2^-24 in [0, 1).
UVals == {F32Zero, Fin(1, -24), Fin(1, -2), Fin(1, -1), Fin(3, -2), Fin(16777215, -24)}

(***************************************************************************)
(* ProbError (error.rs)                                                    *)
(***************************************************************************)
Empty == [kind |-> "Empty"]
Negative(index, value) == [kind |-> "Negative", index |-> index, value |-> value]
ZeroSum == [kind |-> "ZeroSum"]
NoError == [kind |-> "None"]

(***************************************************************************)
(* AliasTable::new (walker.rs:49-107).  The activation of `new` is the     *)
(* record `build`: pc is the position in the function, the other fields    *)
(* are its locals.  pc = "done" is the return of Ok(Self { probs }),       *)
(* pc = "err" the return of Err(err).                                      *)
(***************************************************************************)
VARIABLES weights, build, draw, count, usampler, udraw,
          pairs, items, table, last, factor, other, rng, enum, derive

\* The item tables: the arguments of their constructors, the table, and the
\* last call made on it.
tvars == <<pairs, items, table, last>>

\* A second construction, from the weights multiplied by `factor`.
kvars == <<factor, other>>

\* The requests that the last draw made of its random number generator, in
\* the order it made them.
rvars == <<rng>>

\* An expansion of derive(WeightedEnum): the variants read so far and the
\* activation of the macro.
dvars == <<enum, derive>>

vars == <<weights, build, draw, count, usampler, udraw, pairs, items, table,
          last, factor, other, rng, enum, derive>>

Last(s) == s[Len(s)]
Front(s) == SubSeq(s, 1, Len(s) - 1)
Range(s) == {s[k] : k \in 1..Len(s)}

Bucket(prob, alias) == [prob |-> prob, alias |-> alias]

\* Entry of `new`.
Enter(ws) ==
    [pc |-> "start", n |-> 0, i |-> 0, sum |-> F32Zero, scaled |-> <<>>,
     probs |-> <<>>, small |-> <<>>, large |-> <<>>, pairs |-> 0,
     err |-> NoError]

\* No call of `new` in progress.
Idle == [Enter(<<>>) EXCEPT !.pc = "idle"]

\* CheckEmpty without the test of walker.rs:51
CheckEmptySkipped(b, ws) ==
    [b EXCEPT !.pc = "sum", !.n = Cardinality(DOMAIN ws), !.i = 0,
              !.sum = F32Zero]

\* walker.rs:50-55
CheckEmpty(b, ws) ==
    LET n == Cardinality(DOMAIN ws)
    IN  IF n = 0
        THEN [b EXCEPT !.pc = "err", !.err = Empty]
        ELSE [b EXCEPT !.pc = "sum", !.n = n, !.i = 0, !.sum = F32Zero]

\* SumStep rejecting `w <= 0.0` instead of a set sign bit
SumStepRejectsZero(b, ws) ==
    LET w == ws[b.i]
    IN  IF IsSignNegative(w) \/ IsZero(w)
        THEN [b EXCEPT !.pc = "err", !.err = Negative(b.i, w)]
        ELSE [b EXCEPT !.sum = F32Add(b.sum, w), !.i = b.i + 1]

\* SumStep testing `w < 0.0` instead of the sign bit
SumStepNumericSign(b, ws) ==
    LET w == ws[b.i]
    IN  IF F32Lt(w, F32Zero)
        THEN [b EXCEPT !.pc = "err", !.err = Negative(b.i, w)]
        ELSE [b EXCEPT !.sum = F32Add(b.sum, w), !.i = b.i + 1]

\* SumStep leaving non-finite weights out of the sum
SumStepSkipsNonFinite(b, ws) ==
    LET w == ws[b.i]
    IN  IF IsSignNegative(w)
        THEN [b EXCEPT !.pc = "err", !.err = Negative(b.i, w)]
        ELSE IF ~IsFinite(w) THEN [b EXCEPT !.i = b.i + 1]
        ELSE [b EXCEPT !.sum = F32Add(b.sum, w), !.i = b.i + 1]

\* SumStep rejecting a non-finite weight with ZeroSum before looking at
\* its sign
SumStepFiniteFirst(b, ws) ==
    LET w == ws[b.i]
    IN  IF ~IsFinite(w)
        THEN [b EXCEPT !.pc = "err", !.err = ZeroSum]
        ELSE IF IsSignNegative(w)
        THEN [b EXCEPT !.pc = "err", !.err = Negative(b.i, w)]
        ELSE [b EXCEPT !.sum = F32Add(b.sum, w), !.i = b.i + 1]

\* walker.rs:56-61, one iteration of the summing loop
SumStep(b, ws) ==
    LET w == ws[b.i]
    IN  IF IsSignNegative(w)
        THEN [b EXCEPT !.pc = "err", !.err = Negative(b.i, w)]
        ELSE [b EXCEPT !.sum = F32Add(b.sum, w), !.i = b.i + 1]

\* Scale with the sum subtracted instead of divided by
ScaleMinusSum(w, n, sum) == F32Sub(F32Mul(w, UsizeToF32(n)), sum)

\* walker.rs:67
Scale(w, n, sum) == F32Div(F32Mul(w, UsizeToF32(n)), sum)

\* IsSmall with the comparison turned round
IsSmallInverted(p) == F32Lt(F32One, p)

\* walker.rs:81
IsSmall(p) == F32Lt(p, F32One)

\* walker.rs:94
Reclassify(p) == F32Lt(p, Threshold)

\* Normalize with the initial alias of bucket j off by one
NormalizeAliasOffByOne(b, ws) ==
    IF ~IsFinite(b.sum) \/ IsZero(b.sum)
    THEN [b EXCEPT !.pc = "err", !.err = ZeroSum]
    ELSE
      LET n == b.n
          scaled == [j \in 0..(n - 1) |-> Scale(ws[j], n, b.sum)]
          order == [k \in 1..n |-> k - 1]
      IN  [b EXCEPT !.pc = "pair",
                    !.scaled = scaled,
                    !.probs = [j \in 0..(n - 1) |-> Bucket(F32Zero, j + 1)],
                    !.small = SelectSeq(order, LAMBDA j : IsSmall(scaled[j])),
                    !.large = SelectSeq(order, LAMBDA j : ~IsSmall(scaled[j]))]

\* walker.rs:62-86, after the summing loop: the check of the sum, the
\* scaled weights, the initial buckets and the two worklists.
Normalize(b, ws) ==
    IF ~IsFinite(b.sum) \/ IsZero(b.sum)
    THEN [b EXCEPT !.pc = "err", !.err = ZeroSum]
    ELSE
      LET n == b.n
          scaled == [j \in 0..(n - 1) |-> Scale(ws[j], n, b.sum)]
          order == [k \in 1..n |-> k - 1]
      IN  [b EXCEPT !.pc = "pair",
                    !.scaled = scaled,
                    !.probs = [j \in 0..(n - 1) |-> Bucket(F32Zero, j)],
                    !.small = SelectSeq(order, LAMBDA j : IsSmall(scaled[j])),
                    !.large = SelectSeq(order, LAMBDA j : ~IsSmall(scaled[j]))]

\* PairStep that pushes the heavy index back to neither worklist
PairStepDropsHeavy(b) ==
    LET s == Last(b.small)
        l == Last(b.large)
        sl == F32Sub(F32Add(b.scaled[l], b.scaled[s]), F32One)
    IN  [b EXCEPT !.probs[s] = Bucket(b.scaled[s], l),
                  !.scaled[l] = sl,
                  !.small = Front(b.small),
                  !.large = Front(b.large),
                  !.pairs = b.pairs + 1]

\* PairStep that leaves out the `- 1.0` of walker.rs:92
PairStepKeepsOne(b) ==
    LET s == Last(b.small)
        l == Last(b.large)
        sl == F32Add(b.scaled[l], b.scaled[s])
    IN  [b EXCEPT !.probs[s] = Bucket(b.scaled[s], l),
                  !.scaled[l] = sl,
                  !.small = IF Reclassify(sl) THEN Append(Front(b.small), l)
                            ELSE Front(b.small),
                  !.large = IF Reclassify(sl) THEN Front(b.large)
                            ELSE Append(Front(b.large), l),
                  !.pairs = b.pairs + 1]

\* PairStep that also finalises the bucket of the heavy index
PairStepWritesHeavy(b) ==
    LET s == Last(b.small)
        l == Last(b.large)
        sl == F32Sub(F32Add(b.scaled[l], b.scaled[s]), F32One)
    IN  [b EXCEPT !.probs[s] = Bucket(b.scaled[s], l),
                  !.probs[l] = Bucket(F32One, l),
                  !.scaled[l] = sl,
                  !.small = IF Reclassify(sl) THEN Append(Front(b.small), l)
                            ELSE Front(b.small),
                  !.large = IF Reclassify(sl) THEN Front(b.large)
                            ELSE Append(Front(b.large), l),
                  !.pairs = b.pairs + 1]

\* PairStep that forgets to take the donated mass from the heavy index
PairStepNoDonation(b) ==
    LET s == Last(b.small)
        l == Last(b.large)
        sl == b.scaled[l]
    IN  [b EXCEPT !.probs[s] = Bucket(b.scaled[s], l),
                  !.scaled[l] = sl,
                  !.small = IF Reclassify(sl) THEN Append(Front(b.small), l)
                            ELSE Front(b.small),
                  !.large = IF Reclassify(sl) THEN Front(b.large)
                            ELSE Append(Front(b.large), l),
                  !.pairs = b.pairs + 1]

\* walker.rs:88-99, one iteration of the pairing loop whose pattern matches
PairStep(b) ==
    LET s == Last(b.small)
        l == Last(b.large)
        sl == F32Sub(F32Add(b.scaled[l], b.scaled[s]), F32One)
    IN  [b EXCEPT !.probs[s] = Bucket(b.scaled[s], l),
                  !.scaled[l] = sl,
                  !.small = IF Reclassify(sl) THEN Append(Front(b.small), l)
                            ELSE Front(b.small),
                  !.large = IF Reclassify(sl) THEN Front(b.large)
                            ELSE Append(Front(b.large), l),
                  !.pairs = b.pairs + 1]

\* walker.rs:88 and 101-106: the evaluation of (small.pop(), large.pop())
\* that does not match (both pops are made, the popped index is dropped),
\* then the loop over what is left in the worklists, then Ok.
Residue(b) ==
    LET small == IF b.small = <<>> THEN <<>> ELSE Front(b.small)
        large == IF b.large = <<>> THEN <<>> ELSE Front(b.large)
        rest == Range(small) \cup Range(large)
    IN  [b EXCEPT !.pc = "done",
                  !.small = small,
                  !.large = large,
                  !.probs = [j \in 0..(b.n - 1) |->
                               IF j \in rest THEN Bucket(F32One, j)
                               ELSE b.probs[j]]]

\* One step of `new` from wherever it stands.
Step(b, ws) ==
    IF b.pc = "start" THEN CheckEmpty(b, ws)
    ELSE IF b.pc = "sum" /\ b.i < b.n THEN SumStep(b, ws)
    ELSE IF b.pc = "sum" THEN Normalize(b, ws)
    ELSE IF b.pc = "pair" /\ b.small # <<>> /\ b.large # <<>> THEN PairStep(b)
    ELSE IF b.pc = "pair" THEN Residue(b)
    ELSE b

Returned(b) == b.pc \in {"done", "err"}

\* Up to k steps of `new`, stopping at its return.
RECURSIVE Steps(_, _, _)
Steps(b, ws, k) ==
    IF Returned(b) THEN b
    ELSE IF k = 1 THEN Step(b, ws)
    ELSE LET half == Steps(b, ws, k \div 2)
         IN  IF Returned(half) THEN half ELSE Steps(half, ws, k - k \div 2)

\* The whole call AliasTable::new(ws): it takes at most 2n + 3 steps.
New(ws) == Steps(Enter(ws), ws, 2 * Cardinality(DOMAIN ws) + 3)

\* AliasTable::sample_index (walker.rs:120-129) for the draws i and u
SampleIndexOf(probs, i, u) ==
    IF F32Lt(u, probs[i].prob) THEN i ELSE probs[i].alias

\* AliasTable::len, AliasTable::is_empty (walker.rs:143-150)
AliasLen(probs) == Cardinality(DOMAIN probs)
AliasIsEmpty(probs) == AliasLen(probs) = 0

\* The random number generator as the draws see it: each request is served
\* with one value and is recorded.  rng.random_range(0..n) yields an integer
\* val in [0, n), rng.random::<f32>() a real val in [0, 1).
NoRequests == <<>>

RandomRange(served, n, val) ==
    Append(served, [kind |-> "integer", n |-> n, val |-> val])

RandomF32(served, val) ==
    Append(served, [kind |-> "real", n |-> 0, val |-> val])

\* sample_index that asks for the real only where bucket i can send the
\* draw to its alias
SampleIndexRngLazy(probs, i, u) ==
    IF F32Lt(probs[i].prob, F32One)
    THEN RandomF32(RandomRange(NoRequests, AliasLen(probs), i), u)
    ELSE RandomRange(NoRequests, AliasLen(probs), i)

\* The requests of AliasTable::sample_index (walker.rs:121-123) served
\* with i and u: both are made before the comparison of line 124.
SampleIndexRng(probs, i, u) ==
    RandomF32(RandomRange(NoRequests, AliasLen(probs), i), u)

NoDraw == [i |-> -1, u |-> F32Zero, ret |-> -1]

(***************************************************************************)
(* UniformSampler (sampler.rs:11-29)                                       *)
(***************************************************************************)
NoSampler == [st |-> "none", n |-> 0, err |-> NoError]

\* UniformSampler::new rejecting n <= 1
UniformNewOfStrict(n) ==
    IF n <= 1 THEN [st |-> "err", n |-> 0, err |-> Empty]
    ELSE [st |-> "ok", n |-> n, err |-> NoError]

\* UniformSampler::new
UniformNewOf(n) ==
    IF n = 0 THEN [st |-> "err", n |-> 0, err |-> Empty]
    ELSE [st |-> "ok", n |-> n, err |-> NoError]

\* IndexSampler::len for UniformSampler
UniformLen(u) == u.n

\* UniformSampler::sample_index returning the successor of the integer drawn
UniformSampleIndexOfNext(u, k) == k + 1

\* IndexSampler::sample_index for UniformSampler (sampler.rs:26-28), for
\* the integer k that rng.random_range(0..self.n) draws
UniformSampleIndexOf(u, k) == k

NoUDraw == [k |-> -1, ret |-> -1]

\* The one request of UniformSampler's sample_index (sampler.rs:27)
UniformSampleIndexRng(u, k) == RandomRange(NoRequests, u.n, k)

(***************************************************************************)
(* The item tables: DropTable (lib.rs), UniformTable (uniform.rs) and      *)
(* StaticDropTable (staticdt.rs).  A table is a record: `type` is the      *)
(* struct, `via` the constructor that made it, `st` the Result (ok, err),  *)
(* `sampler` the index sampler it holds (the field `alias` of DropTable,   *)
(* `sampler` of StaticDropTable, none in a UniformTable) and `items` the   *)
(* item sequence, indexed from 0.                                          *)
(***************************************************************************)
Items == {"a", "b"}

Pair(item, weight) == [item |-> item, weight |-> weight]

\* Weights of the pairs a caller passes: 0, 1, 3 and -1.
PairWeightVals == {F32Zero, F32One, Fin(3, 0), Neg(F32One)}

PairSlices ==
    UNION {[0..(n - 1) -> {Pair(t, w) : t \in Items, w \in PairWeightVals}] :
             n \in 0..MaxLen}

ItemSlices == UNION {[0..(n - 1) -> Items] : n \in 0..MaxLen}

\* The index samplers a table can hold.
Weighted(probs) == [kind |-> "weighted", n |-> AliasLen(probs), probs |-> probs]
Uniform(n) == [kind |-> "uniform", n |-> n, probs |-> <<>>]
NoIndexSampler == [kind |-> "none", n |-> 0, probs |-> <<>>]

\* IndexSampler::len (lib.rs:84-87) of either implementation
SamplerLen(s) ==
    IF s.kind = "weighted" THEN AliasLen(s.probs) ELSE UniformLen(s)

\* IndexSampler::sample_index of either implementation, for the integer i
\* and (weighted only) the real u that the random source yields
SamplerSampleIndexOf(s, i, u) ==
    IF s.kind = "weighted" THEN SampleIndexOf(s.probs, i, u)
    ELSE UniformSampleIndexOf(s, i)

\* No table yet; `arg` says what the caller holds ("pairs" or "items").
Pending(arg) ==
    [type |-> "none", via |-> arg, st |-> "pending", err |-> NoError,
     sampler |-> NoIndexSampler, items |-> <<>>]

Failed(type, via, err) ==
    [type |-> type, via |-> via, st |-> "err", err |-> err,
     sampler |-> NoIndexSampler, items |-> <<>>]

Built(type, via, sampler, its) ==
    [type |-> type, via |-> via, st |-> "ok", err |-> NoError,
     sampler |-> sampler, items |-> its]

\* The two vectors that the loop of lib.rs:149-152 fills, in input order.
ItemsOfPairs(ps) == [j \in DOMAIN ps |-> ps[j].item]
WeightsOfPairs(ps) == [j \in DOMAIN ps |-> ps[j].weight]

\* DropTable::from_pairs that reports every failure of `new` as Empty
FromPairsOfAlwaysEmpty(ps, via) ==
    LET its == ItemsOfPairs(ps)
        b == New(WeightsOfPairs(ps))
    IN  IF b.pc = "err" THEN Failed("DropTable", via, Empty)
        ELSE Built("DropTable", via, Weighted(b.probs), its)

\* DropTable::from_pairs that pushes the items in reverse
FromPairsOfReversed(ps, via) ==
    LET n == Cardinality(DOMAIN ps)
        its == [j \in DOMAIN ps |-> ps[n - 1 - j].item]
        b == New(WeightsOfPairs(ps))
    IN  IF b.pc = "err" THEN Failed("DropTable", via, b.err)
        ELSE Built("DropTable", via, Weighted(b.probs), its)

\* DropTable::from_pairs (lib.rs:143-155)
FromPairsOf(ps, via) ==
    LET its == ItemsOfPairs(ps)
        b == New(WeightsOfPairs(ps))
    IN  IF b.pc = "err" THEN Failed("DropTable", via, b.err)
        ELSE Built("DropTable", via, Weighted(b.probs), its)

\* WeightedEnum::droptable (lib.rs:125-130), on the ENTRIES of the enum
WeightedEnumDroptableOf(entries) == FromPairsOf(entries, "WeightedEnum::droptable")

\* UniformTable::from_items (uniform.rs:15-22)
FromItemsOf(its, via) == Built("UniformTable", via, NoIndexSampler, its)

\* UniformTable::from_array (uniform.rs:25-35)
FromArrayOf(its) ==
    IF Cardinality(DOMAIN its) = 0
    THEN Failed("UniformTable", "from_array", Empty)
    ELSE Built("UniformTable", "from_array", NoIndexSampler, its)

\* StaticDropTable::new (staticdt.rs:17-19)
StaticDropTableNew(sampler, its, via) ==
    Built("StaticDropTable", via, sampler, its)

\* UniformEnum::droptable with a sampler over one outcome too many
UniformEnumDroptableOfOneMore(VARS) ==
    LET s == UniformNewOf(Cardinality(DOMAIN VARS))
    IN  IF s.st = "err"
        THEN Failed("StaticDropTable", "UniformEnum::droptable", s.err)
        ELSE StaticDropTableNew(Uniform(s.n + 1), VARS, "UniformEnum::droptable")

\* UniformEnum::droptable (uniform.rs:75-81), on the VARS of the enum
UniformEnumDroptableOf(VARS) ==
    LET s == UniformNewOf(Cardinality(DOMAIN VARS))
    IN  IF s.st = "err"
        THEN Failed("StaticDropTable", "UniformEnum::droptable", s.err)
        ELSE StaticDropTableNew(Uniform(s.n), VARS, "UniformEnum::droptable")

\* UniformEnum::droptable_stateful (uniform.rs:85-91)
UniformEnumDroptableStatefulOf(VARS) ==
    FromItemsOf(VARS, "UniformEnum::droptable_stateful")

\* The `droptable` function that derive(WeightedEnum) emits
\* (droptables_macros/src/lib.rs:209-224): VARS and WEIGHTS are the two
\* halves of the entries, in the same order.
DeriveDroptableOf(entries) ==
    LET b == New(WeightsOfPairs(entries))
    IN  IF b.pc = "err"
        THEN Failed("StaticDropTable", "derive droptable", b.err)
        ELSE StaticDropTableNew(Weighted(b.probs), ItemsOfPairs(entries),
                                "derive droptable")

\* len() of DropTable (lib.rs:185-187), StaticDropTable (staticdt.rs:23-25)
\* and UniformTable (uniform.rs:38-40)
TableLen(t) ==
    IF t.type = "UniformTable" THEN Cardinality(DOMAIN t.items)
    ELSE SamplerLen(t.sampler)

\* is_empty() of DropTable (lib.rs:190-192) and UniformTable
\* (uniform.rs:41-43)
TableIsEmpty(t) ==
    IF t.type = "UniformTable" THEN Cardinality(DOMAIN t.items) = 0
    ELSE AliasIsEmpty(t.sampler.probs)

\* The bound n of the rng.random_range(0..n) that a sample makes:
\* probs.len() (walker.rs:121), self.n (sampler.rs:27) or items.len()
\* (uniform.rs:47).
DrawRange(t) ==
    IF t.type = "UniformTable" THEN Cardinality(DOMAIN t.items)
    ELSE SamplerLen(t.sampler)

\* Values of rng.random::<f32>() drawn by the calls on a table: 0, 1/2 and
\* the largest, 1 - 2^-24.
TableUVals == {F32Zero, Fin(1, -1), Fin(16777215, -24)}

\* The values of the second draw: only a weighted sampler makes it; where
\* it is not made it is written 0.
RealDraws(t) == IF t.sampler.kind = "weighted" THEN TableUVals ELSE {F32Zero}

Call(reader, op, i, u, idx, ret) ==
    [reader |-> reader, op |-> op, i |-> i, u |-> u, idx |-> idx, ret |-> ret]

NoCall == Call(0, "none", -1, F32Zero, -1, "none")

\* sample that reads the item after the one the sampler drew
TableSampleOfNext(t, reader, op, i, u) ==
    LET idx == IF t.type = "UniformTable" THEN i
               ELSE SamplerSampleIndexOf(t.sampler, i, u)
    IN  IF idx + 1 \in DOMAIN t.items
        THEN Call(reader, op, i, u, idx, t.items[idx + 1])
        ELSE Call(reader, op, i, u, idx, "panic")

\* sample / sample_owned of DropTable (lib.rs:169-182), StaticDropTable
\* (staticdt.rs:29-42) and UniformTable (uniform.rs:46-57) for the draws i
\* and u: the index, then the indexing of the items, which panics when the
\* index is out of bounds.
TableSampleOf(t, reader, op, i, u) ==
    LET idx == IF t.type = "UniformTable" THEN i
               ELSE SamplerSampleIndexOf(t.sampler, i, u)
    IN  IF idx \in DOMAIN t.items
        THEN Call(reader, op, i, u, idx, t.items[idx])
        ELSE Call(reader, op, i, u, idx, "panic")

\* The requests of IndexSampler::sample_index of either implementation
SamplerSampleIndexRng(s, i, u) ==
    IF s.kind = "weighted" THEN SampleIndexRng(s.probs, i, u)
    ELSE UniformSampleIndexRng(s, i)

\* The requests of sample / sample_owned: those of the sampler's
\* sample_index (lib.rs:170, 181; staticdt.rs:30, 40), or the one
\* rng.random_range(0..self.items.len()) of UniformTable (uniform.rs:47, 56).
TableSampleRng(t, i, u) ==
    IF t.type = "UniformTable"
    THEN RandomRange(NoRequests, Cardinality(DOMAIN t.items), i)
    ELSE SamplerSampleIndexRng(t.sampler, i, u)

\* rng.random_range(0..0) panics: the range is empty.
EmptyRangePanic(reader, op) == Call(reader, op, -1, F32Zero, -1, "panic")

(***************************************************************************)
(* derive(WeightedEnum) (droptables_macros/src/lib.rs).  The macro reads   *)
(* the variants of an enum in declaration order.  A variant is a record:   *)
(* `unit` says that it has no fields, `attrs` is the sequence of its       *)
(* attributes.  An attribute #[odds = "A/B"] holds the parts that the      *)
(* string splits into at '/'; a part is a number or not one.               *)
(*                                                                         *)
(* The macro computes in f64.  An f64 is a record [cls, k]: cls in         *)
(* {"fin", "inf", "nan"} and, for a finite value, k * 2^-20.  The odds of  *)
(* the model are such multiples below 2^33, on which the additions, the    *)
(* subtraction and the division of the macro are exact.                    *)
(***************************************************************************)
\* 1.0 in units of 2^-20
One64 == 1048576

F64(k) == [cls |-> "fin", k |-> k]
F64Inf == [cls |-> "inf", k |-> 0]
F64NaN == [cls |-> "nan", k |-> 0]

\* Option<f64>::None
NoProb == [cls |-> "none", k |-> 0]

Abs(k) == IF k < 0 THEN -k ELSE k

\* d * 2^-20 > EPS for const EPS: f64 = 1e-6 (lib.rs:119) and d >= 0
\* units: 1e-6 lies strictly between 1 and 2 units.
ExceedsEPS(d) == d > One64 \div 1000000

\* `p as f32` (lib.rs:158, 173): the nearest binary32.
AsF32(p) ==
    IF p.cls = "inf" THEN F32Inf
    ELSE IF p.cls = "nan" THEN F32NaN
    ELSE IF p.k < 0 THEN Neg(RoundF32(-p.k, -20, FALSE))
    ELSE RoundF32(p.k, -20, FALSE)

\* A part of an odds string: the whole number v, inf, or not a number.
Num(v) == [cls |-> "fin", v |-> v]
NumInf == [cls |-> "inf", v |-> 0]
NotNum == [cls |-> "bad", v |-> 0]

Ok(val) == [ok |-> TRUE, val |-> val, err |-> "none"]
Err(err) == [ok |-> FALSE, val |-> NoProb, err |-> err]

\* parse_num (lib.rs:267-269)
ParseNum(part) ==
    IF part.cls = "bad" THEN Err("failed to parse number") ELSE Ok(part)

\* a / b in f64 for parsed a > 0 and b > 0; b is a power of two up to 2^20.
F64Div(a, b) ==
    IF a.cls = "inf" /\ b.cls = "inf" THEN F64NaN
    ELSE IF a.cls = "inf" THEN F64Inf
    ELSE IF b.cls = "inf" THEN F64(0)
    ELSE F64(a.v * (One64 \div b.v))

\* parse_odds_str (lib.rs:253-265) on the parts of the trimmed string
ParseOddsStr(parts) ==
    IF Len(parts) # 2 THEN Err("expected A/B")
    ELSE
      LET a == ParseNum(parts[1])
          b == ParseNum(parts[2])
      IN  IF ~a.ok THEN a
          ELSE IF ~b.ok THEN b
          ELSE IF (a.val.cls = "fin" /\ a.val.v <= 0)
                    \/ (b.val.cls = "fin" /\ b.val.v <= 0)
               THEN Err("A and B must be positive")
          ELSE Ok(F64Div(a.val, b.val))

\* Attributes: #[rest], #[odds = "A/B"], #[odds("A/B")] and #[odds = 5].
Rest == [kind |-> "rest", form |-> "path", parts |-> <<>>]
Odds(parts) == [kind |-> "odds", form |-> "str", parts |-> parts]
OddsList == [kind |-> "odds", form |-> "list", parts |-> <<>>]
OddsInt == [kind |-> "odds", form |-> "int", parts |-> <<>>]

Variant(unit, attrs) == [unit |-> unit, attrs |-> attrs]

\* The locals of one turn of the loop over the variants (lib.rs:43-44),
\* with rest_count and the compile error returned, if any.
VarLocals(rest_count) ==
    [prob |-> NoProb, is_rest |-> FALSE, rest_count |-> rest_count,
     err |-> "none"]

\* One attribute of a variant (lib.rs:46-93)
ReadAttr(v, attr) ==
    IF attr.kind = "odds" THEN
        IF attr.form = "list" THEN [v EXCEPT !.err = "use odds = A/B"]
        ELSE IF attr.form = "int" THEN [v EXCEPT !.err = "odds must be a string literal"]
        ELSE
          LET r == ParseOddsStr(attr.parts)
          IN  IF ~r.ok THEN [v EXCEPT !.err = r.err]
              ELSE IF r.val.cls # "fin" \/ r.val.k <= 0
                   THEN [v EXCEPT !.err = "odds must produce a positive, finite probability"]
              ELSE IF v.prob.cls # "none"
                   THEN [v EXCEPT !.prob = r.val, !.err = "duplicate odds on variant"]
              ELSE [v EXCEPT !.prob = r.val]
    ELSE IF attr.kind = "rest" THEN
        IF v.is_rest THEN [v EXCEPT !.err = "duplicate rest on variant"]
        ELSE [v EXCEPT !.is_rest = TRUE, !.rest_count = @ + 1]
    ELSE v

\* The loop over the attributes of a variant, left at the first error
RECURSIVE ReadAttrs(_, _)
ReadAttrs(v, attrs) ==
    IF attrs = <<>> \/ v.err # "none" THEN v
    ELSE ReadAttrs(ReadAttr(v, Head(attrs)), Tail(attrs))

\* The activation of derive_weighted_enum: pc is the stage, tmp the VarTmp
\* read so far (their ident is their position), err the compile error, and
\* finalized the (ident, f32) list of stage 2, indexed from 0.  `static`,
\* `stateful` and `sampler` are the returns of the generated droptable(),
\* droptable_stateful() and sampler(), once called.
DeriveEnter ==
    [pc |-> "stage1", tmp |-> <<>>, rest_count |-> 0, err |-> "none",
     finalized |-> <<>>, static |-> Pending("none"),
     stateful |-> Pending("none"), sampler |-> Idle]

\* No activation of the macro.
DeriveIdle == [pc |-> "idle"]

CompileError(d, err) == [d EXCEPT !.pc = "error", !.err = err]

\* One turn of the loop of stage 1 (lib.rs:33-110)
Stage1Variant(d, variant) ==
    IF ~variant.unit
    THEN CompileError(d, "WeightedEnum only supports fieldless variants")
    ELSE
      LET v == ReadAttrs(VarLocals(d.rest_count), variant.attrs)
      IN  IF v.err # "none" THEN CompileError(d, v.err)
          ELSE IF v.prob.cls = "none" /\ ~v.is_rest
               THEN CompileError(d, "each variant must have either odds or rest")
          ELSE [d EXCEPT !.tmp = Append(@, [prob |-> v.prob, is_rest |-> v.is_rest]),
                         !.rest_count = v.rest_count]

\* sum_known (lib.rs:120-125), in units of 2^-20
RECURSIVE SumKnown(_)
SumKnown(tmp) ==
    IF tmp = <<>> THEN 0
    ELSE SumKnown(Front(tmp))
           + (IF Last(tmp).prob.cls = "none" THEN 0 ELSE Last(tmp).prob.k)

\* Stage 2 that asks for a sum of exactly 1 where no variant is #[rest]
Stage2Exact(d) ==
    LET sum_known == SumKnown(d.tmp)
        rest_val == One64 - sum_known
        n == Len(d.tmp)
    IN  IF d.rest_count > 1
        THEN CompileError(d, "at most one variant may use rest")
        ELSE IF d.rest_count = 1 THEN
            IF sum_known > One64 /\ ExceedsEPS(sum_known - One64)
            THEN CompileError(d, "sum of specified odds exceeds 1")
            ELSE IF rest_val < 0 /\ ExceedsEPS(-rest_val)
            THEN CompileError(d, "computed rest is negative")
            ELSE [d EXCEPT !.pc = "expanded",
                           !.finalized = [j \in 0..(n - 1) |->
                               Pair(j + 1, AsF32(
                                 IF d.tmp[j + 1].is_rest
                                 THEN IF rest_val < 0 /\ ~ExceedsEPS(Abs(rest_val))
                                      THEN F64(0)
                                      ELSE F64(rest_val)
                                 ELSE d.tmp[j + 1].prob))]]
        ELSE
            IF sum_known # One64
            THEN CompileError(d, "probabilities must sum to 1.0")
            ELSE [d EXCEPT !.pc = "expanded",
                           !.finalized = [j \in 0..(n - 1) |->
                               Pair(j + 1, AsF32(d.tmp[j + 1].prob))]]

\* The check of rest_count (lib.rs:112-116) and stage 2 (lib.rs:118-175)
Stage2(d) ==
    LET sum_known == SumKnown(d.tmp)
        rest_val == One64 - sum_known
        n == Len(d.tmp)
    IN  IF d.rest_count > 1
        THEN CompileError(d, "at most one variant may use rest")
        ELSE IF d.rest_count = 1 THEN
            IF sum_known > One64 /\ ExceedsEPS(sum_known - One64)
            THEN CompileError(d, "sum of specified odds exceeds 1")
            ELSE IF rest_val < 0 /\ ExceedsEPS(-rest_val)
            THEN CompileError(d, "computed rest is negative")
            ELSE [d EXCEPT !.pc = "expanded",
                           !.finalized = [j \in 0..(n - 1) |->
                               Pair(j + 1, AsF32(
                                 IF d.tmp[j + 1].is_rest
                                 THEN IF rest_val < 0 /\ ~ExceedsEPS(Abs(rest_val))
                                      THEN F64(0)
                                      ELSE F64(rest_val)
                                 ELSE d.tmp[j + 1].prob))]]
        ELSE
            IF ExceedsEPS(Abs(sum_known - One64))
            THEN CompileError(d, "probabilities must sum to 1.0")
            ELSE [d EXCEPT !.pc = "expanded",
                           !.finalized = [j \in 0..(n - 1) |->
                               Pair(j + 1, AsF32(d.tmp[j + 1].prob))]]

\* ENTRIES, VARS and WEIGHTS of the expansion (lib.rs:177-199, 218-223)
ENTRIES(finalized) == [j \in DOMAIN finalized |-> finalized[j]]
VARS(finalized) == [j \in DOMAIN finalized |-> finalized[j].item]

\* WEIGHTS in the reverse of the declaration order
WEIGHTSReversed(finalized) ==
    LET n == Cardinality(DOMAIN finalized)
    IN  [j \in DOMAIN finalized |-> finalized[n - 1 - j].weight]

WEIGHTS(finalized) == [j \in DOMAIN finalized |-> finalized[j].weight]

\* The generated droptable() (lib.rs:209-224)
GeneratedDroptable(finalized) ==
    LET b == New(WEIGHTS(finalized))
    IN  IF b.pc = "err"
        THEN Failed("StaticDropTable", "derive droptable", b.err)
        ELSE StaticDropTableNew(Weighted(b.probs), VARS(finalized),
                                "derive droptable")

\* The generated droptable_stateful() (lib.rs:229-234)
GeneratedDroptableStateful(finalized) ==
    WeightedEnumDroptableOf(ENTRIES(finalized))

\* The generated sampler() (lib.rs:237-242)
GeneratedSampler(finalized) == New(WEIGHTS(finalized))

\* Bounds of the enums read: variants per enum, attributes per variant
MaxVariants == 2
MaxAttrs == 2

\* The odds strings of the model: 1/2, 1/1, 1 - 2^-20, 1 + 2^-20 and
\* 1 + 2^-19, then 0/1, -1/-2, inf/1, "1" and "x/2".
OddsStrs ==
    {<<Num(1), Num(2)>>, <<Num(1), Num(1)>>,
     <<Num(1048575), Num(1048576)>>, <<Num(1048577), Num(1048576)>>,
     <<Num(1048578), Num(1048576)>>,
     <<Num(0), Num(1)>>, <<Num(-1), Num(-2)>>, <<NumInf, Num(1)>>,
     <<Num(1)>>, <<NotNum, Num(2)>>}

Attrs == {Rest, OddsList, OddsInt} \cup {Odds(p) : p \in OddsStrs}

AttrLists == UNION {[1..n -> Attrs] : n \in 0..MaxAttrs}

\* A variant with fields is refused before its attributes are read.
VariantsRead ==
    {Variant(TRUE, a) : a \in AttrLists} \cup {Variant(FALSE, <<>>)}

(***************************************************************************)
(* Actions                                                                 *)
(***************************************************************************)
\* No item table and no second construction in play.
NoTables ==
    /\ pairs = <<>>
    /\ items = <<>>
    /\ table = Pending("none")
    /\ last = NoCall

NoScale ==
    /\ factor = F32One
    /\ other = Idle

\* No enum under expansion.
NoDerive ==
    /\ enum = <<>>
    /\ derive = DeriveIdle

InitWeighted ==
    /\ weights \in WeightSlices
    /\ build = Enter(weights)
    /\ draw = NoDraw
    /\ count = 0
    /\ usampler = NoSampler
    /\ udraw = NoUDraw
    /\ rng = NoRequests
    /\ NoDerive
    /\ NoTables
    /\ NoScale

InitUniform ==
    /\ weights = <<>>
    /\ build = Idle
    /\ draw = NoDraw
    /\ count \in 0..MaxCount
    /\ usampler = [NoSampler EXCEPT !.st = "pending"]
    /\ udraw = NoUDraw
    /\ rng = NoRequests
    /\ NoDerive
    /\ NoTables
    /\ NoScale

Init == InitWeighted \/ InitUniform

NewCheckEmpty ==
    /\ build.pc = "start"
    /\ build' = CheckEmpty(build, weights)
    /\ UNCHANGED <<weights, draw, count, usampler, udraw>>
    /\ UNCHANGED <<tvars, kvars, rvars, dvars>>

NewSumStep ==
    /\ build.pc = "sum"
    /\ build.i < build.n
    /\ build' = SumStep(build, weights)
    /\ UNCHANGED <<weights, draw, count, usampler, udraw>>
    /\ UNCHANGED <<tvars, kvars, rvars, dvars>>

NewNormalize ==
    /\ build.pc = "sum"
    /\ build.i = build.n
    /\ build' = Normalize(build, weights)
    /\ UNCHANGED <<weights, draw, count, usampler, udraw>>
    /\ UNCHANGED <<tvars, kvars, rvars, dvars>>

NewPair ==
    /\ build.pc = "pair"
    /\ build.small # <<>>
    /\ build.large # <<>>
    /\ build' = PairStep(build)
    /\ UNCHANGED <<weights, draw, count, usampler, udraw>>
    /\ UNCHANGED <<tvars, kvars, rvars, dvars>>

NewResidue ==
    /\ build.pc = "pair"
    /\ build.small = <<>> \/ build.large = <<>>
    /\ build' = Residue(build)
    /\ UNCHANGED <<weights, draw, count, usampler, udraw>>
    /\ UNCHANGED <<tvars, kvars, rvars, dvars>>

SampleIndex ==
    /\ build.pc = "done"
    /\ \E i \in 0..(AliasLen(build.probs) - 1), u \in UVals :
          /\ draw' = [i |-> i, u |-> u, ret |-> SampleIndexOf(build.probs, i, u)]
          /\ rng' = SampleIndexRng(build.probs, i, u)
    /\ UNCHANGED <<weights, build, count, usampler, udraw>>
    /\ UNCHANGED <<tvars, kvars, dvars>>

UniformNew ==
    /\ usampler.st = "pending"
    /\ usampler' = UniformNewOf(count)
    /\ UNCHANGED <<weights, build, draw, count, udraw>>
    /\ UNCHANGED <<tvars, kvars, rvars, dvars>>

UniformSampleIndex ==
    /\ usampler.st = "ok"
    /\ \E k \in 0..(usampler.n - 1) :
          /\ udraw' = [k |-> k, ret |-> UniformSampleIndexOf(usampler, k)]
          /\ rng' = UniformSampleIndexRng(usampler, k)
    /\ UNCHANGED <<weights, build, draw, count, usampler>>
    /\ UNCHANGED <<tvars, kvars, dvars>>

\* A slice of 4102 weights: a zero, 2^24, and 4100 threes.  Every addition
\* of 3.0 to a sum above 2^24 rounds up to the next multiple of 4.
RoundSlice ==
    [j \in 0..4101 |-> IF j = 0 THEN F32Zero
                       ELSE IF j = 1 THEN Fin(1, 24) ELSE Fin(3, 0)]

InitCall ==
    /\ weights \in WeightSlices \cup {RoundSlice}
    /\ build = Enter(weights)
    /\ draw = NoDraw
    /\ count = 0
    /\ usampler = NoSampler
    /\ udraw = NoUDraw
    /\ rng = NoRequests
    /\ NoDerive
    /\ NoTables
    /\ NoScale

\* AliasTable::new as one call
NewCall ==
    /\ build.pc = "start"
    /\ build' = New(weights)
    /\ UNCHANGED <<weights, draw, count, usampler, udraw>>
    /\ UNCHANGED <<tvars, kvars, rvars, dvars>>

SpecCall == InitCall /\ [][NewCall]_vars

Next ==
    \/ NewCheckEmpty
    \/ NewSumStep
    \/ NewNormalize
    \/ NewPair
    \/ NewResidue
    \/ SampleIndex
    \/ UniformNew
    \/ UniformSampleIndex

Spec == Init /\ [][Next]_vars

\* A call of AliasTable::new run to its return: the construction alone,
\* every step of which is taken once it is enabled.
NextNew ==
    \/ NewCheckEmpty
    \/ NewSumStep
    \/ NewNormalize
    \/ NewPair
    \/ NewResidue

\* A call of `new` runs to its return: weak fairness of the construction
\* steps, WF_vars(NextNew), written out. A step of NextNew is enabled exactly
\* when the call has not returned, and every step changes build.
SpecNew ==
    /\ InitWeighted
    /\ [][NextNew]_vars
    /\ ([]<>Returned(build) \/ []<><<NextNew>>_vars)

(***************************************************************************)
(* The item tables: constructors and calls                                 *)
(***************************************************************************)
Readers == {1, 2}

InitPairs ==
    /\ pairs \in PairSlices
    /\ items = <<>>
    /\ table = Pending("pairs")
    /\ last = NoCall
    /\ weights = <<>>
    /\ build = Idle
    /\ draw = NoDraw
    /\ count = 0
    /\ usampler = NoSampler
    /\ udraw = NoUDraw
    /\ rng = NoRequests
    /\ NoDerive
    /\ NoScale

InitItems ==
    /\ pairs = <<>>
    /\ items \in ItemSlices
    /\ table = Pending("items")
    /\ last = NoCall
    /\ weights = <<>>
    /\ build = Idle
    /\ draw = NoDraw
    /\ count \in 0..MaxCount
    /\ usampler = [NoSampler EXCEPT !.st = "pending"]
    /\ udraw = NoUDraw
    /\ rng = NoRequests
    /\ NoDerive
    /\ NoScale

InitTables == InitPairs \/ InitItems

\* The variants of an enum are distinct: ENTRIES and VARS, which the derive
\* macros emit one per variant, name no variant twice.
Variants(its) == \A j, k \in DOMAIN its : j # k => its[j] # its[k]

Frame == UNCHANGED <<weights, build, draw, count, usampler, udraw, kvars, dvars>>

FromPairs ==
    /\ table = Pending("pairs")
    /\ table' = FromPairsOf(pairs, "from_pairs")
    /\ UNCHANGED <<pairs, items, last, rvars>>
    /\ Frame

WeightedEnumDroptable ==
    /\ table = Pending("pairs")
    /\ Variants(ItemsOfPairs(pairs))
    /\ table' = WeightedEnumDroptableOf(pairs)
    /\ UNCHANGED <<pairs, items, last, rvars>>
    /\ Frame

DeriveDroptable ==
    /\ table = Pending("pairs")
    /\ Variants(ItemsOfPairs(pairs))
    /\ table' = DeriveDroptableOf(pairs)
    /\ UNCHANGED <<pairs, items, last, rvars>>
    /\ Frame

FromItems ==
    /\ table = Pending("items")
    /\ table' = FromItemsOf(items, "from_items")
    /\ UNCHANGED <<pairs, items, last, rvars>>
    /\ Frame

FromArray ==
    /\ table = Pending("items")
    /\ table' = FromArrayOf(items)
    /\ UNCHANGED <<pairs, items, last, rvars>>
    /\ Frame

\* StaticDropTable::new(sampler, items) with a constructed UniformSampler
StaticNew ==
    /\ table = Pending("items")
    /\ usampler.st = "ok"
    /\ table' = StaticDropTableNew(Uniform(usampler.n), items, "new")
    /\ UNCHANGED <<pairs, items, last, rvars>>
    /\ Frame

UniformEnumDroptable ==
    /\ table = Pending("items")
    /\ Variants(items)
    /\ table' = UniformEnumDroptableOf(items)
    /\ UNCHANGED <<pairs, items, last, rvars>>
    /\ Frame

UniformEnumDroptableStateful ==
    /\ table = Pending("items")
    /\ Variants(items)
    /\ table' = UniformEnumDroptableStatefulOf(items)
    /\ UNCHANGED <<pairs, items, last, rvars>>
    /\ Frame

\* A sample that takes the item it returns out of the table
SampleCallTaking(r, op) ==
    /\ table.st = "ok"
    /\ IF DrawRange(table) = 0
       THEN last' = EmptyRangePanic(r, op) /\ table' = table /\ rng' = NoRequests
       ELSE \E i \in 0..(DrawRange(table) - 1), u \in RealDraws(table) :
               /\ last' = TableSampleOf(table, r, op, i, u)
               /\ rng' = TableSampleRng(table, i, u)
               /\ table' = [table EXCEPT !.items =
                               [j \in DOMAIN table.items \ {last'.idx} |->
                                  table.items[j]]]
    /\ UNCHANGED <<pairs, items>>
    /\ Frame

\* One call of sample or sample_owned by a reader
SampleCall(r, op) ==
    /\ table.st = "ok"
    /\ IF DrawRange(table) = 0
       THEN /\ last' = EmptyRangePanic(r, op)
            /\ rng' = NoRequests
       ELSE \E i \in 0..(DrawRange(table) - 1), u \in RealDraws(table) :
               /\ last' = TableSampleOf(table, r, op, i, u)
               /\ rng' = TableSampleRng(table, i, u)
    /\ UNCHANGED <<pairs, items, table>>
    /\ Frame

Sample == \E r \in Readers : SampleCall(r, "sample")

SampleOwned == \E r \in Readers : SampleCall(r, "sample_owned")

LenCall ==
    /\ table.st = "ok"
    /\ \E r \in Readers :
          last' = Call(r, "len", -1, F32Zero, -1, TableLen(table))
    /\ rng' = NoRequests
    /\ UNCHANGED <<pairs, items, table>>
    /\ Frame

\* DropTable and UniformTable have is_empty, StaticDropTable has not.
IsEmptyCall ==
    /\ table.st = "ok"
    /\ table.type # "StaticDropTable"
    /\ \E r \in Readers :
          last' = Call(r, "is_empty", -1, F32Zero, -1, TableIsEmpty(table))
    /\ rng' = NoRequests
    /\ UNCHANGED <<pairs, items, table>>
    /\ Frame

\* StaticDropTable::items (staticdt.rs:46-48), UniformTable::as_slice
\* (uniform.rs:60-62)
ItemsCall ==
    /\ table.st = "ok"
    /\ table.type # "DropTable"
    /\ \E r \in Readers :
          last' = Call(r, IF table.type = "StaticDropTable" THEN "items"
                          ELSE "as_slice",
                       -1, F32Zero, -1, table.items)
    /\ rng' = NoRequests
    /\ UNCHANGED <<pairs, items, table>>
    /\ Frame

\* UniformSampler::new for the sampler handed to StaticDropTable::new
UniformNewForTable ==
    /\ table = Pending("items")
    /\ UniformNew

NextTables ==
    \/ FromPairs
    \/ WeightedEnumDroptable
    \/ DeriveDroptable
    \/ FromItems
    \/ FromArray
    \/ UniformNewForTable
    \/ StaticNew
    \/ UniformEnumDroptable
    \/ UniformEnumDroptableStateful
    \/ Sample
    \/ SampleOwned
    \/ LenCall
    \/ IsEmptyCall
    \/ ItemsCall

SpecTables == InitTables /\ [][NextTables]_vars

\* The constructors and the draws alone
NextDraws ==
    \/ FromPairs
    \/ WeightedEnumDroptable
    \/ DeriveDroptable
    \/ FromItems
    \/ FromArray
    \/ UniformNewForTable
    \/ StaticNew
    \/ UniformEnumDroptable
    \/ UniformEnumDroptableStateful
    \/ Sample
    \/ SampleOwned

SpecDraws == InitTables /\ [][NextDraws]_vars

\* The pairs whose weights are RoundSlice.
RoundPairs ==
    [j \in 0..4101 |-> Pair(IF j = 0 THEN "a" ELSE "b", RoundSlice[j])]

InitPairsCall ==
    /\ pairs \in PairSlices \cup {RoundPairs}
    /\ items = <<>>
    /\ table = Pending("pairs")
    /\ last = NoCall
    /\ weights = <<>>
    /\ build = Idle
    /\ draw = NoDraw
    /\ count = 0
    /\ usampler = NoSampler
    /\ udraw = NoUDraw
    /\ rng = NoRequests
    /\ NoDerive
    /\ NoScale

SpecPairsCall == InitPairsCall /\ [][FromPairs]_vars

(***************************************************************************)
(* Two constructions, from a weight slice and from the slice multiplied by *)
(* a positive scalar.                                                      *)
(***************************************************************************)
\* Positive scalars: 2, 3, 10 and 1/2.
Factors == {Fin(1, 1), Fin(3, 0), Fin(5, 1), Fin(1, -1)}

\* Weights for the two constructions: small integers, 2^24 and f32::MAX.
ScaleWeightVals == {Fin(k, 0) : k \in 0..MaxWeight} \cup {Fin(1, 24), F32Max}

ScaleSlices == UNION {[0..(n - 1) -> ScaleWeightVals] : n \in 0..MaxLen}

\* The slice k * w, each product an f32 multiplication made by the caller.
ScaleBy(k, ws) == [j \in DOMAIN ws |-> F32Mul(ws[j], k)]

InitScale ==
    /\ weights \in ScaleSlices
    /\ factor \in Factors
    /\ build = Enter(weights)
    /\ other = Enter(ScaleBy(factor, weights))
    /\ draw = NoDraw
    /\ count = 0
    /\ usampler = NoSampler
    /\ udraw = NoUDraw
    /\ rng = NoRequests
    /\ NoDerive
    /\ NoTables

\* AliasTable::new on the multiplied slice, as one call
NewScaledCall ==
    /\ other.pc = "start"
    /\ other' = New(ScaleBy(factor, weights))
    /\ UNCHANGED <<weights, build, draw, count, usampler, udraw, factor>>
    /\ UNCHANGED <<tvars, rvars, dvars>>

NextScale ==
    \/ NewCall
    \/ NewScaledCall

SpecScale == InitScale /\ [][NextScale]_vars

(***************************************************************************)
(* derive(WeightedEnum): the expansion of an enum, variant by variant, and *)
(* the calls of the functions it generates.                                *)
(***************************************************************************)
InitDerive ==
    /\ enum = <<>>
    /\ derive = DeriveEnter
    /\ weights = <<>>
    /\ build = Idle
    /\ draw = NoDraw
    /\ count = 0
    /\ usampler = NoSampler
    /\ udraw = NoUDraw
    /\ rng = NoRequests
    /\ NoTables
    /\ NoScale

DeriveFrame ==
    UNCHANGED <<weights, build, draw, count, usampler, udraw, tvars, kvars, rvars>>

\* The macro reads the next variant of the enum.
DeriveVariant ==
    /\ derive.pc = "stage1"
    /\ Len(enum) < MaxVariants
    /\ \E v \in VariantsRead :
          /\ enum' = Append(enum, v)
          /\ derive' = Stage1Variant(derive, v)
    /\ DeriveFrame

\* The enum has no further variant: the rest of the macro.
DeriveExpand ==
    /\ derive.pc = "stage1"
    /\ derive' = Stage2(derive)
    /\ UNCHANGED enum
    /\ DeriveFrame

CallDroptable ==
    /\ derive.pc = "expanded"
    /\ derive' = [derive EXCEPT !.static = GeneratedDroptable(derive.finalized)]
    /\ UNCHANGED enum
    /\ DeriveFrame

CallDroptableStateful ==
    /\ derive.pc = "expanded"
    /\ derive' = [derive EXCEPT !.stateful =
                                  GeneratedDroptableStateful(derive.finalized)]
    /\ UNCHANGED enum
    /\ DeriveFrame

CallSampler ==
    /\ derive.pc = "expanded"
    /\ derive' = [derive EXCEPT !.sampler = GeneratedSampler(derive.finalized)]
    /\ UNCHANGED enum
    /\ DeriveFrame

NextDerive ==
    \/ DeriveVariant
    \/ DeriveExpand
    \/ CallDroptable
    \/ CallDroptableStateful
    \/ CallSampler

SpecDerive == InitDerive /\ [][NextDerive]_vars

(***************************************************************************)
(* Vocabulary of the properties                                            *)
(***************************************************************************)
N == Cardinality(DOMAIN weights)

HasSignNegative(ws) == \E j \in DOMAIN ws : IsSignNegative(ws[j])

FirstSignNegative(ws) ==
    CHOOSE j \in DOMAIN ws :
        /\ IsSignNegative(ws[j])
        /\ \A k \in DOMAIN ws : k < j => ~IsSignNegative(ws[k])

\* The f32 total of ws[0..k-1], added left to right.
RECURSIVE TotalTo(_, _)
TotalTo(ws, k) ==
    IF k = 0 THEN F32Zero ELSE F32Add(TotalTo(ws, k - 1), ws[k - 1])

Total(ws) == TotalTo(ws, Cardinality(DOMAIN ws))

\* A non-negative integer below 256 held in an f32.
IsSmallInt(x) == x.cls = "fin" /\ ~x.neg /\ x.e >= 0 /\ x.e + BitLen(x.m) <= 8

IntOf(x) == x.m * Pow2(x.e)

RECURSIVE IntTotalTo(_, _)
IntTotalTo(ws, k) ==
    IF k = 0 THEN 0 ELSE IntTotalTo(ws, k - 1) + IntOf(ws[k - 1])

IntTotal(ws) == IntTotalTo(ws, Cardinality(DOMAIN ws))

RECURSIVE OddPart(_)
OddPart(k) == IF k > 0 /\ k % 2 = 0 THEN OddPart(k \div 2) ELSE k

\* Integer weights for which every scaled weight w * n / total is a dyadic
\* fraction, so that no f32 operation of the construction rounds: on these
\* inputs the arithmetic of the code is exact.
ExactArithmetic(ws) ==
    /\ Cardinality(DOMAIN ws) >= 1
    /\ \A j \in DOMAIN ws : IsSmallInt(ws[j])
    /\ IntTotal(ws) > 0
    /\ \A j \in DOMAIN ws :
          (IntOf(ws[j]) * Cardinality(DOMAIN ws)) % OddPart(IntTotal(ws)) = 0

\* A probability that is a multiple of 2^-12, in units of 2^-12.
Units(x) == x.m * Pow2(x.e + 12)

\* 4096 * the sum of (1 - prob[j]) over the buckets j < k with alias[j] = i.
RECURSIVE Donated(_, _, _)
Donated(probs, i, k) ==
    IF k = 0 THEN 0
    ELSE Donated(probs, i, k - 1)
           + (IF probs[k - 1].alias = i THEN 4096 - Units(probs[k - 1].prob)
              ELSE 0)

InUnitInterval(x) ==
    IsFinite(x) /\ ~F32Lt(x, F32Zero) /\ ~F32Lt(F32One, x)

\* Inputs that the specification calls valid: every weight finite and not
\* negative (sign bit clear), the total finite and not zero.
ValidWeights(ws) ==
    /\ Cardinality(DOMAIN ws) >= 1
    /\ \A j \in DOMAIN ws : IsFinite(ws[j]) /\ ~IsSignNegative(ws[j])
    /\ IsFinite(Total(ws))
    /\ ~IsZero(Total(ws))

BadTotal(ws) == ~IsFinite(Total(ws)) \/ IsZero(Total(ws))

\* A negative number (finite or infinite) or negative zero: the sign bit
\* set on something that is not a NaN.
IsNegativeNumberOrZero(x) == x.neg /\ x.cls # "nan"

(***************************************************************************)
(* Properties                                                              *)
(***************************************************************************)

\* C1: with exact arithmetic, the table built by `new` gives every outcome i
\* the marginal probability
\*   (prob[i] + sum over j with alias[j] = i of (1 - prob[j])) / n
\* equal to weight[i] / total.
C1_ExactMarginals ==
    (build.pc = "done" /\ ExactArithmetic(weights)) =>
        \A i \in DOMAIN weights :
            (Units(build.probs[i].prob) + Donated(build.probs, i, N))
                * IntTotal(weights)
              = N * IntOf(weights[i]) * 4096

C1_Witness ==
    /\ build.pc = "done"
    /\ ExactArithmetic(weights)
    /\ build.pairs >= 2
    /\ \E i \in DOMAIN weights :
          /\ F32Lt(F32Zero, build.probs[i].prob)
          /\ F32Lt(build.probs[i].prob, F32One)
          /\ build.probs[i].alias # i

\* C2: on a non-empty slice of finite, non-negative weights with a finite
\* positive total, `new` never returns an error, and the sampler it returns
\* has len() = n and is_empty() = false.
C2_ValidInputsBuild ==
    ValidWeights(weights) =>
        /\ build.pc # "err"
        /\ build.pc = "done" =>
              /\ AliasLen(build.probs) = N
              /\ ~AliasIsEmpty(build.probs)

C2_Witness ==
    /\ ValidWeights(weights)
    /\ build.pc = "done"
    /\ N >= 2
    /\ \E j \in DOMAIN weights : IsZero(weights[j])

\* C3: `new` on a slice of length 0 returns Err(Empty) and builds no sampler.
C3_EmptyRejected ==
    (build.pc # "idle" /\ N = 0) =>
        /\ build.pc \in {"start", "err"}
        /\ build.pc = "err" => build.err = Empty
        /\ build.probs = <<>>

C3_Witness == N = 0 /\ build.pc = "err" /\ build.err = Empty

\* C4: on a non-empty slice holding a weight with the sign bit set (-0.0
\* included), `new` returns Err(Negative{index, value}) for the first such
\* weight, and never a sampler.
C4_NegativeRejected ==
    (N >= 1 /\ HasSignNegative(weights)) =>
        /\ build.pc \in {"start", "sum", "err"}
        /\ build.pc = "err" =>
              build.err = Negative(FirstSignNegative(weights),
                                   weights[FirstSignNegative(weights)])

C4_Witness ==
    /\ build.pc = "err"
    /\ build.err.kind = "Negative"
    /\ build.err.index >= 1
    /\ build.err.value = Neg(F32Zero)
    /\ \E j \in DOMAIN weights : j > build.err.index /\ IsSignNegative(weights[j])

\* C5 as stated: on a non-empty slice in which no weight is a negative
\* number or negative zero, `new` returns Err(ZeroSum) whenever the total is
\* zero, NaN or infinite.
C5_Original ==
    (/\ N >= 1
     /\ \A j \in DOMAIN weights : ~IsNegativeNumberOrZero(weights[j])
     /\ BadTotal(weights)
     /\ Returned(build)) =>
        build.pc = "err" /\ build.err = ZeroSum

\* C5, amended: on a non-empty slice in which no weight has its sign bit set
\* (no negative number, no -0.0 and no negative-signed NaN), `new` returns
\* Err(ZeroSum) whenever the total is zero, NaN or infinite.
C5_ZeroSumRejected ==
    (/\ N >= 1
     /\ ~HasSignNegative(weights)
     /\ BadTotal(weights)) =>
        /\ build.pc \in {"start", "sum", "err"}
        /\ build.pc = "err" => build.err = ZeroSum

C5_Witness ==
    /\ build.pc = "err"
    /\ build.err = ZeroSum
    /\ N >= 2
    /\ \E j \in DOMAIN weights : weights[j] = F32NaN \/ weights[j] = F32Inf

\* C6: a failing construction reports one error kind, chosen in the order
\* Empty, Negative, ZeroSum: Empty exactly for length 0, Negative whenever
\* some weight has the sign bit set (whatever the total), ZeroSum otherwise.
C6_ErrorPrecedence ==
    build.pc = "err" =>
        /\ build.err.kind \in {"Empty", "Negative", "ZeroSum"}
        /\ build.err.kind = "Empty" <=> N = 0
        /\ build.err.kind = "Negative" <=> (N >= 1 /\ HasSignNegative(weights))
        /\ build.err.kind = "ZeroSum" <=> (N >= 1 /\ ~HasSignNegative(weights))

C6_Witness ==
    /\ build.pc = "err"
    /\ build.err.kind = "Negative"
    /\ N = 2
    /\ weights[0] = F32Inf
    /\ weights[1] = Neg(F32One)

\* C7: in every constructed sampler each bucket has 0 <= prob <= 1 and an
\* alias in [0, n), and nothing changes the sampler after construction.
C7_BucketsValid ==
    /\ [](build.pc = "done" =>
            \A i \in DOMAIN build.probs :
                /\ InUnitInterval(build.probs[i].prob)
                /\ build.probs[i].alias \in 0..(N - 1))
    /\ [][build.pc = "done" => build' = build]_vars

C7_Witness ==
    /\ build.pc = "done"
    /\ N >= 3
    /\ draw # NoDraw
    /\ \E i \in DOMAIN build.probs :
          /\ F32Lt(F32Zero, build.probs[i].prob)
          /\ F32Lt(build.probs[i].prob, F32One)

\* C8: a sampler built from a single positive weight returns index 0 on
\* every draw.
C8_SingletonDrawsZero ==
    (N = 1 /\ draw # NoDraw) => draw.ret = 0

C8_Witness ==
    /\ N = 1
    /\ draw # NoDraw
    /\ draw.ret = 0
    /\ draw.u = F32Zero
    /\ weights[0] = Fin(MaxWeight, 0)

\* C9: in a constructed sampler an index of weight 0 is returned by no
\* draw: whatever the bucket j and the value u, sample_index differs from it.
C9_ZeroWeightUnreachable ==
    build.pc = "done" =>
        \A i \in DOMAIN weights :
            IsZero(weights[i]) =>
                \A j \in DOMAIN build.probs, u \in UVals :
                    SampleIndexOf(build.probs, j, u) # i

\* C10: UniformSampler::new(n) returns Err(Empty) exactly when n = 0, and
\* otherwise a sampler with len() = n.
C10_UniformNew ==
    usampler.st \in {"ok", "err"} =>
        /\ usampler.st = "err" <=> count = 0
        /\ usampler.st = "err" => usampler.err = Empty
        /\ usampler.st = "ok" => UniformLen(usampler) = count

C10_Witness ==
    /\ usampler.st = "ok"
    /\ count = 1
    /\ UniformLen(usampler) = 1

\* C11: on a constructed sampler, weighted or uniform, every sample_index
\* returns an index k with 0 <= k < len(), whatever the random source
\* yields; for the uniform sampler the result is the integer drawn, and
\* every index in [0, n) is the result of some draw.
C11_IndexInRange ==
    /\ draw # NoDraw => draw.ret \in 0..(AliasLen(build.probs) - 1)
    /\ build.pc = "done" =>
          \A i \in 0..(AliasLen(build.probs) - 1), u \in UVals :
              SampleIndexOf(build.probs, i, u) \in 0..(AliasLen(build.probs) - 1)
    /\ udraw # NoUDraw =>
          /\ udraw.ret \in 0..(UniformLen(usampler) - 1)
          /\ udraw.ret = udraw.k
    /\ usampler.st = "ok" =>
          \A k \in 0..(UniformLen(usampler) - 1) :
              \E d \in 0..(usampler.n - 1) : UniformSampleIndexOf(usampler, d) = k

C11_Witness ==
    /\ udraw # NoUDraw
    /\ UniformLen(usampler) = MaxCount
    /\ udraw.ret = MaxCount - 1

\* The number of pairs handed to the constructor.
NP == Cardinality(DOMAIN pairs)

IsSampleOp(op) == op \in {"sample", "sample_owned"}

\* C12: after from_pairs succeeds, the item stored at index i is the item
\* of the i-th pair, the sampler is the one built from the weights in the
\* same order, the number of items, the sampler's outcome count and the
\* number of pairs are equal, len() returns it and is_empty() is false.
C12_FromPairsOrder ==
    (table.type = "DropTable" /\ table.st = "ok") =>
        /\ DOMAIN table.items = DOMAIN pairs
        /\ \A i \in DOMAIN pairs : table.items[i] = pairs[i].item
        /\ table.sampler.probs
              = New([j \in DOMAIN pairs |-> pairs[j].weight]).probs
        /\ Cardinality(DOMAIN table.items) = NP
        /\ SamplerLen(table.sampler) = NP
        /\ TableLen(table) = NP
        /\ ~TableIsEmpty(table)
        /\ last.op = "len" => last.ret = NP
        /\ last.op = "is_empty" => last.ret = FALSE

C12_Witness ==
    /\ table.type = "DropTable"
    /\ table.via = "from_pairs"
    /\ table.st = "ok"
    /\ NP = MaxLen
    /\ pairs[0].item # pairs[1].item
    /\ pairs[0].weight # pairs[1].weight
    /\ last.op = "len"

\* C13: sample and sample_owned of a DropTable return the item stored at
\* the index its sampler draws; every result is an input item whose weight
\* is positive; with exact arithmetic the item at position k is returned
\* with probability weight[k] / total.
C13_SampleByWeight ==
    (table.type = "DropTable" /\ table.st = "ok") =>
        /\ \A i \in 0..(DrawRange(table) - 1), u \in UVals :
              LET c == TableSampleOf(table, 1, "sample", i, u)
              IN  /\ c.idx = SampleIndexOf(table.sampler.probs, i, u)
                  /\ c.idx \in DOMAIN pairs
                  /\ c.ret = pairs[c.idx].item
                  /\ F32Lt(F32Zero, pairs[c.idx].weight)
        /\ IsSampleOp(last.op) =>
              /\ last.idx = SampleIndexOf(table.sampler.probs, last.i, last.u)
              /\ last.ret = pairs[last.idx].item
              /\ F32Lt(F32Zero, pairs[last.idx].weight)
        /\ ExactArithmetic(WeightsOfPairs(pairs)) =>
              \A k \in DOMAIN pairs :
                  (Units(table.sampler.probs[k].prob)
                       + Donated(table.sampler.probs, k, NP))
                      * IntTotal(WeightsOfPairs(pairs))
                    = NP * IntOf(pairs[k].weight) * 4096

\* C14: from_pairs fails exactly when `new` fails on the weights of the
\* pairs in order, with the same error (kind, index and value); a failure
\* returns no table, whole or partial.
C14_FromPairsErrors ==
    (table.type = "DropTable" /\ table.st \in {"ok", "err"}) =>
        LET b == New([j \in DOMAIN pairs |-> pairs[j].weight])
        IN  /\ table.st = "err" <=> b.pc = "err"
            /\ table.st = "err" =>
                  /\ table.err = b.err
                  /\ table.sampler = NoIndexSampler
                  /\ table.items = <<>>
                  /\ last.op = "none"

C14_Witness ==
    /\ table.type = "DropTable"
    /\ table.st = "err"
    /\ table.err.kind = "Negative"
    /\ table.err.index >= 1
    /\ pairs[0].weight = F32Zero

\* C15: each constructor of UniformTable returns Err(Empty) on zero items
\* and Ok otherwise, so a constructed UniformTable has len() >= 1 and
\* is_empty() = false.
C15_UniformTableRejectsEmpty ==
    (table.type = "UniformTable" /\ table.st \in {"ok", "err"}) =>
        /\ table.st = "err" <=> Cardinality(DOMAIN items) = 0
        /\ table.st = "err" => table.err = Empty
        /\ table.st = "ok" =>
              /\ TableLen(table) >= 1
              /\ ~TableIsEmpty(table)

\* C16: on every table a public constructor returns, sample and
\* sample_owned return an item: the range drawn from is not empty and the
\* index drawn is within the items, so no call panics.
C16_SampleNeverPanics ==
    /\ table.st = "ok" =>
          /\ DrawRange(table) >= 1
          /\ \A i \in 0..(DrawRange(table) - 1), u \in RealDraws(table) :
                TableSampleOf(table, 1, "sample", i, u).ret # "panic"
    /\ IsSampleOp(last.op) =>
          /\ last.ret # "panic"
          /\ last.idx \in DOMAIN table.items

HoldsSamplerAndItems(t) ==
    t.st = "ok" /\ t.type \in {"DropTable", "StaticDropTable"}

\* C17 as stated: every constructed DropTable and StaticDropTable,
\* StaticDropTable::new included, has as many items as its sampler has
\* outcomes, and StaticDropTable::len() equals items().len().
C17_Original ==
    HoldsSamplerAndItems(table) =>
        /\ Cardinality(DOMAIN table.items) = SamplerLen(table.sampler)
        /\ TableLen(table) = Cardinality(DOMAIN table.items)

\* C17, amended: a DropTable, a StaticDropTable made by a derive-generated
\* droptable function, and a StaticDropTable made by StaticDropTable::new
\* from a sampler and an item slice of the same length, have as many items
\* as the sampler has outcomes, and then len() equals items().len(); len()
\* of a StaticDropTable is always the sampler's outcome count.
C17_LengthsAgree ==
    HoldsSamplerAndItems(table) =>
        /\ (table.via # "new" \/ Cardinality(DOMAIN items) = UniformLen(usampler)) =>
              /\ Cardinality(DOMAIN table.items) = SamplerLen(table.sampler)
              /\ TableLen(table) = Cardinality(DOMAIN table.items)
        /\ TableLen(table) = SamplerLen(table.sampler)
        /\ last.op = "len" => last.ret = SamplerLen(table.sampler)

C17_Witness ==
    /\ table.type = "StaticDropTable"
    /\ table.via = "UniformEnum::droptable"
    /\ table.st = "ok"
    /\ Cardinality(DOMAIN table.items) = 2
    /\ last.op = "len"
    /\ last.ret = 2

\* What a call by `reader` returns on table t for the draws i and u.
ResultOf(t, reader, op, i, u) ==
    IF IsSampleOp(op)
    THEN IF i = -1 THEN EmptyRangePanic(reader, op)
         ELSE TableSampleOf(t, reader, op, i, u)
    ELSE IF op = "len" THEN Call(reader, op, i, u, -1, TableLen(t))
    ELSE IF op = "is_empty" THEN Call(reader, op, i, u, -1, TableIsEmpty(t))
    ELSE Call(reader, op, i, u, -1, t.items)

\* C18: no sample, sample_owned, len, is_empty, items or as_slice changes a
\* table: once constructed, its buckets, its count n and its items stay as
\* construction left them under every interleaving of the calls of two
\* readers, and what a call returns is a function of the table and of the
\* caller's own draws.
C18_ReadsDoNotChange ==
    /\ [][table.st = "ok" =>
            /\ table' = table
            /\ pairs' = pairs
            /\ items' = items]_vars
    /\ [](last.op # "none" =>
            /\ table.st = "ok"
            /\ last = ResultOf(table, last.reader, last.op, last.i, last.u))

C18_Witness ==
    /\ table.type = "DropTable"
    /\ table.st = "ok"
    /\ last.reader = 2
    /\ last.op = "sample_owned"
    /\ last.i = MaxLen - 1
    /\ last.idx # last.i
    /\ last.ret \in Items

\* The number of values u = v * 2^-24, v in 0..2^24-1 (the values of
\* rng.random::<f32>()), with u < p.
Below(p) ==
    IF ~F32Lt(p, F32One) THEN Pow2(24)
    ELSE IF ~F32Lt(F32Zero, p) THEN 0
    ELSE IF p.e >= -24 THEN p.m * Pow2(p.e + 24)
    ELSE IF -p.e - 24 >= 24 THEN 1
    ELSE (p.m + Pow2(-p.e - 24) - 1) \div Pow2(-p.e - 24)

\* The number of draws (j, v), j < k a bucket and v in 0..2^24-1, on which
\* sample_index returns i: the probability of i is this over n * 2^24.
RECURSIVE DrawWeightTo(_, _, _)
DrawWeightTo(probs, i, k) ==
    IF k = 0 THEN 0
    ELSE DrawWeightTo(probs, i, k - 1)
           + (IF k - 1 = i THEN Below(probs[k - 1].prob) ELSE 0)
           + (IF probs[k - 1].alias = i
              THEN Pow2(24) - Below(probs[k - 1].prob) ELSE 0)

DrawWeight(probs, i) == DrawWeightTo(probs, i, Cardinality(DOMAIN probs))

\* C19 as stated: for every valid w and every positive scalar k the samplers
\* built from w and from k * w give each index the same probability, and
\* with exact arithmetic they have the same buckets.
C19_Original ==
    (ValidWeights(weights) /\ Returned(build) /\ Returned(other)) =>
        /\ build.pc = "done"
        /\ other.pc = "done"
        /\ \A i \in DOMAIN weights :
              DrawWeight(build.probs, i) = DrawWeight(other.probs, i)
        /\ ExactArithmetic(weights) => other.probs = build.probs

\* C19, amended: when w and k * w are both valid and the arithmetic of both
\* constructions is exact, the two samplers have identical (prob, alias)
\* buckets, so the same (bucket draw, u) returns the same index in both
\* and every index has the same probability.
C19_ScaleInvariant ==
    (/\ ExactArithmetic(weights)
     /\ ExactArithmetic([j \in DOMAIN weights |-> F32Mul(weights[j], factor)])
     /\ Returned(build)
     /\ Returned(other)) =>
        /\ build.pc = "done"
        /\ other.pc = "done"
        /\ other.probs = build.probs
        /\ \A i \in DOMAIN build.probs, u \in UVals :
              SampleIndexOf(other.probs, i, u) = SampleIndexOf(build.probs, i, u)
        /\ \A i \in DOMAIN weights :
              DrawWeight(build.probs, i) = DrawWeight(other.probs, i)

C19_Witness ==
    /\ N = 3
    /\ weights[0] = Fin(1, 0)
    /\ weights[1] = Fin(1, 1)
    /\ weights[2] = Fin(3, 0)
    /\ factor = Fin(5, 1)
    /\ build.pc = "done"
    /\ other.pc = "done"
    /\ build.pairs >= 1

\* C20: when construction completes, every index that no pairing took as
\* its light member (its alias is still itself) has prob = 1 and alias = i;
\* for n = 1 the one bucket is prob = 1, alias = 0.
C20_UnpairedGetOne ==
    build.pc = "done" =>
        /\ \A i \in DOMAIN build.probs :
              build.probs[i].alias = i => build.probs[i].prob = F32One
        /\ N = 1 => build.probs[0] = Bucket(F32One, 0)

\* The indices in the two worklists of a construction.
Worklists(b) == Range(b.small) \cup Range(b.large)

\* C21: a pairing step takes s from the light worklist and l from the heavy
\* one, s # l, sets prob[s] to the current scaled[s], a value in [0, 1), and
\* alias[s] to l; s is in no worklist afterwards; an index outside the
\* worklists never returns to them and its bucket is never written again,
\* a pairing writes a bucket only as its index leaves the worklists, and
\* nothing is written after the return, so every index gets its final
\* (prob, alias) at most once.
C21_PairingStep ==
    /\ [][(build.pc = "pair" /\ build'.pc = "pair" /\ build'.pairs # build.pairs) =>
            LET s == Last(build.small)
                l == Last(build.large)
            IN  /\ s # l
                /\ build'.probs[s] = Bucket(build.scaled[s], l)
                /\ IsFinite(build.scaled[s])
                /\ ~F32Lt(build.scaled[s], F32Zero)
                /\ F32Lt(build.scaled[s], F32One)
                /\ s \notin Worklists(build')]_vars
    /\ [][build.pc \in {"pair", "done"} =>
            \A j \in DOMAIN build.probs :
                /\ j \notin Worklists(build) =>
                      /\ build'.probs[j] = build.probs[j]
                      /\ j \notin Worklists(build')
                /\ (build'.pc = "pair" /\ build'.probs[j] # build.probs[j]) =>
                      j \notin Worklists(build')]_vars
    /\ [][build.pc = "done" => build'.probs = build.probs]_vars

C21_Witness ==
    /\ build.pc = "pair"
    /\ build.pairs >= 1
    /\ build.small # <<>>
    /\ build.large # <<>>
    /\ \E j \in DOMAIN build.probs :
          /\ j \notin Worklists(build)
          /\ build.probs[j].alias # j
          /\ F32Lt(F32Zero, build.probs[j].prob)

\* 4096 * the sum of scaled[j] over the indices j < k still in a worklist.
RECURSIVE MassTo(_, _)
MassTo(b, k) ==
    IF k = 0 THEN 0
    ELSE MassTo(b, k - 1)
           + (IF k - 1 \in Worklists(b) THEN Units(b.scaled[k - 1]) ELSE 0)

\* C22: with exact arithmetic, at the start of every iteration of the
\* pairing loop the two worklists are disjoint and hold no index twice, the
\* scaled values of the indices in them add up to the number of those
\* indices, every scaled value is >= 0, and the value the next pairing
\* gives the heavy index, scaled[l] + scaled[s] - 1, is not negative.
C22_MassConserved ==
    (build.pc = "pair" /\ ExactArithmetic(weights)) =>
        /\ Range(build.small) \cap Range(build.large) = {}
        /\ Cardinality(Range(build.small)) = Len(build.small)
        /\ Cardinality(Range(build.large)) = Len(build.large)
        /\ MassTo(build, build.n) = 4096 * Cardinality(Worklists(build))
        /\ \A j \in DOMAIN build.scaled :
              IsFinite(build.scaled[j]) /\ ~F32Lt(build.scaled[j], F32Zero)
        /\ (build.small # <<>> /\ build.large # <<>>) =>
              ~F32Lt(F32Sub(F32Add(build.scaled[Last(build.large)],
                                   build.scaled[Last(build.small)]), F32One),
                     F32Zero)

C22_Witness ==
    /\ build.pc = "pair"
    /\ ExactArithmetic(weights)
    /\ build.pairs >= 1
    /\ build.small # <<>>
    /\ build.large # <<>>
    /\ F32Lt(F32One, build.scaled[Last(build.large)])
    /\ F32Lt(F32Zero, build.scaled[Last(build.small)])

\* C23: on valid weights of length n the pairing loop ends, after at most
\* n - 1 pairings: a pairing takes exactly the light index out of the
\* worklists and puts the heavy index back in exactly one of them, and the
\* loop is left as soon as a worklist is empty.
C23_PairingTerminates ==
    /\ [](build.pc \in {"pair", "done"} =>
            /\ build.pairs <= N - 1
            /\ build.pc = "pair" =>
                  build.pairs + Cardinality(Worklists(build)) = N)
    /\ [][(build.pc = "pair" /\ build'.pc = "pair" /\ build'.pairs # build.pairs) =>
            LET s == Last(build.small)
                l == Last(build.large)
            IN  /\ build'.pairs = build.pairs + 1
                /\ Worklists(build') = Worklists(build) \ {s}
                /\ (l \in Range(build'.small)) # (l \in Range(build'.large))
                /\ Len(build'.small) + Len(build'.large)
                      = Len(build.small) + Len(build.large) - 1]_vars
    /\ [][(build.pc = "pair" /\ (build.small = <<>> \/ build.large = <<>>)) =>
            build'.pc = "done"]_vars
    /\ [](ValidWeights(weights) => <>(build.pc = "done"))

C23_Witness ==
    /\ build.pc = "done"
    /\ ValidWeights(weights)
    /\ N = MaxLen
    /\ build.pairs = N - 1

\* C24: a draw on a table with a weighted sampler asks its generator for
\* exactly two values, the integer i in [0, n) first and the real u second,
\* whichever of i and alias[i] it then returns; a draw on a table with a
\* uniform sampler, or on a UniformTable, asks for exactly one integer and
\* returns it.  sample and sample_owned ask for nothing else.
C24_RngConsumption ==
    (IsSampleOp(last.op) /\ DrawRange(table) > 0) =>
        LET n == DrawRange(table)
        IN  /\ Len(rng) >= 1
            /\ rng[1].kind = "integer"
            /\ rng[1].n = n
            /\ rng[1].val = last.i
            /\ last.i \in 0..(n - 1)
            /\ IF table.type # "UniformTable" /\ table.sampler.kind = "weighted"
               THEN /\ Len(rng) = 2
                    /\ rng[2].kind = "real"
                    /\ rng[2].val = last.u
                    /\ last.idx = IF F32Lt(last.u, table.sampler.probs[last.i].prob)
                                  THEN last.i
                                  ELSE table.sampler.probs[last.i].alias
               ELSE /\ Len(rng) = 1
                    /\ last.idx = last.i

C24_Witness ==
    /\ IsSampleOp(last.op)
    /\ table.type # "UniformTable"
    /\ table.sampler.kind = "weighted"
    /\ Len(rng) = 2
    /\ last.idx = last.i
    /\ ~F32Lt(table.sampler.probs[last.i].prob, F32One)

(***************************************************************************)
(* derive(WeightedEnum): vocabulary on the enum as written                 *)
(***************************************************************************)
Expanded == derive.pc = "expanded"
Refused == derive.pc = "error"

MarkedOdds(v) == \E j \in DOMAIN v.attrs : v.attrs[j].kind = "odds"
MarkedRest(v) == \E j \in DOMAIN v.attrs : v.attrs[j].kind = "rest"
OddsCount(v) == Cardinality({j \in DOMAIN v.attrs : v.attrs[j].kind = "odds"})
RestAttrCount(v) == Cardinality({j \in DOMAIN v.attrs : v.attrs[j].kind = "rest"})
RestVariants(e) == {j \in DOMAIN e : MarkedRest(e[j])}

\* The attribute is #[odds = "A/B"] with numbers A and B.
IsQuotient(a) ==
    /\ a.form = "str"
    /\ Len(a.parts) = 2
    /\ a.parts[1].cls # "bad"
    /\ a.parts[2].cls # "bad"

\* The value A/B of the odds is a positive finite number.
OddsPositiveFinite(a) ==
    /\ IsQuotient(a)
    /\ a.parts[1].cls = "fin" /\ a.parts[1].v # 0
    /\ a.parts[2].cls = "fin" /\ a.parts[2].v # 0
    /\ (a.parts[1].v < 0) = (a.parts[2].v < 0)

\* A > 0 and B > 0
PartsPositive(a) ==
    /\ IsQuotient(a)
    /\ a.parts[1].cls = "inf" \/ a.parts[1].v > 0
    /\ a.parts[2].cls = "inf" \/ a.parts[2].v > 0

\* The value of positive finite odds, in units of 2^-20
OddsUnits(a) == Abs(a.parts[1].v) * (One64 \div Abs(a.parts[2].v))

RECURSIVE AttrsOddsSum(_)
AttrsOddsSum(attrs) ==
    IF attrs = <<>> THEN 0
    ELSE AttrsOddsSum(Front(attrs))
           + (IF Last(attrs).kind = "odds" /\ OddsPositiveFinite(Last(attrs))
              THEN OddsUnits(Last(attrs)) ELSE 0)

\* The sum of the odds of an enum, in units of 2^-20
RECURSIVE OddsSum(_)
OddsSum(e) ==
    IF e = <<>> THEN 0 ELSE OddsSum(Front(e)) + AttrsOddsSum(Last(e).attrs)

\* The conditions on an enum: fieldless variants each with #[odds] or
\* #[rest], positive finite odds at most once per variant, at most one
\* variant marked #[rest], and the sum of the odds.
VariantsMarked(e) ==
    \A j \in DOMAIN e : e[j].unit /\ (MarkedOdds(e[j]) \/ MarkedRest(e[j]))

OddsValid(e) ==
    \A j \in DOMAIN e :
        /\ OddsCount(e[j]) <= 1
        /\ \A k \in DOMAIN e[j].attrs :
              e[j].attrs[k].kind = "odds" => OddsPositiveFinite(e[j].attrs[k])

OneRestAtMost(e) == Cardinality(RestVariants(e)) <= 1

SumFits(e) ==
    \/ /\ RestVariants(e) = {}
       /\ ~ExceedsEPS(Abs(OddsSum(e) - One64))
    \/ /\ Cardinality(RestVariants(e)) = 1
       /\ OddsSum(e) <= One64 \/ ~ExceedsEPS(OddsSum(e) - One64)

\* The odds that the other variants of tmp hold, in units of 2^-20
RECURSIVE OthersSum(_, _)
OthersSum(tmp, r) ==
    IF tmp = <<>> THEN 0
    ELSE OthersSum(Front(tmp), r)
           + (IF Len(tmp) = r \/ Last(tmp).prob.cls = "none" THEN 0
              ELSE Last(tmp).prob.k)

\* 1 minus the odds of the others, 0 where that is negative within 1e-6
Remainder(tmp, r) ==
    LET rem == One64 - OthersSum(tmp, r)
    IN  IF rem < 0 /\ ~ExceedsEPS(-rem) THEN 0 ELSE rem

(***************************************************************************)
(* derive(WeightedEnum): properties                                        *)
(***************************************************************************)
\* C25: with exactly one variant marked #[rest], the weight emitted for it
\* is 1 minus the sum of the weights of all the other variants, or 0 where
\* that remainder is negative within 1e-6; the weight emitted for every
\* other variant is its own odds.
C25_RestIsRemainder ==
    (Expanded /\ Cardinality(RestVariants(enum)) = 1) =>
        \A j \in 1..Len(derive.tmp) :
            derive.finalized[j - 1].weight =
                IF derive.tmp[j].is_rest
                THEN AsF32(F64(Remainder(derive.tmp, j)))
                ELSE AsF32(derive.tmp[j].prob)

\* C26 as stated: the derive accepts an enum exactly when every variant
\* is fieldless and carries #[odds] or #[rest], every odds value is
\* positive and finite and no variant has two #[odds], at most one variant
\* is marked #[rest], and the odds sum to 1 within 1e-6 without #[rest] or
\* to at most 1 + 1e-6 with one.
C26_Original ==
    (Expanded \/ Refused) =>
        (Expanded <=> /\ VariantsMarked(enum)
                      /\ OddsValid(enum)
                      /\ OneRestAtMost(enum)
                      /\ SumFits(enum))

\* C26: the derive accepts an enum exactly when, besides the conditions
\* stated, A and B of every odds are each positive and no variant carries
\* #[rest] twice; every other enum is refused with a compile error.
C26_AcceptsExactlyWhen ==
    /\ (Expanded \/ Refused) =>
          (Expanded <=>
              /\ VariantsMarked(enum)
              /\ OddsValid(enum)
              /\ \A j \in DOMAIN enum :
                    /\ RestAttrCount(enum[j]) <= 1
                    /\ \A k \in DOMAIN enum[j].attrs :
                          enum[j].attrs[k].kind = "odds" =>
                              PartsPositive(enum[j].attrs[k])
              /\ OneRestAtMost(enum)
              /\ SumFits(enum))
    /\ Refused <=> derive.err # "none"

C26_Witness ==
    /\ Expanded
    /\ Len(enum) = MaxVariants
    /\ Cardinality(RestVariants(enum)) = 1
    /\ OddsSum(enum) > One64

\* C27: for an accepted enum the emitted weights are a non-empty list of
\* finite weights >= 0 with a positive total, and droptable(),
\* droptable_stateful() and sampler() return no error.
C27_EmittedWeightsValid ==
    Expanded =>
        /\ DOMAIN derive.finalized # {}
        /\ \A j \in DOMAIN derive.finalized :
              /\ IsFinite(derive.finalized[j].weight)
              /\ ~F32Lt(derive.finalized[j].weight, F32Zero)
        /\ \E j \in DOMAIN derive.finalized :
              F32Lt(F32Zero, derive.finalized[j].weight)
        /\ derive.static.st # "err"
        /\ derive.stateful.st # "err"
        /\ derive.sampler.pc # "err"

\* C28: VARS and WEIGHTS are the two halves of ENTRIES, in declaration
\* order, and the tables of the generated droptable() and of
\* droptable_stateful() hold the same sampler and the same variants and
\* return the same variant for the same draws.
C28_SameOrderSameTable ==
    Expanded =>
        /\ DOMAIN derive.finalized = 0..(Len(enum) - 1)
        /\ \A j \in DOMAIN derive.finalized :
              /\ ENTRIES(derive.finalized)[j]
                    = Pair(VARS(derive.finalized)[j], WEIGHTS(derive.finalized)[j])
              /\ VARS(derive.finalized)[j] = j + 1
              /\ ~derive.tmp[j + 1].is_rest =>
                    WEIGHTS(derive.finalized)[j] = AsF32(derive.tmp[j + 1].prob)
        /\ (derive.static.st # "pending" /\ derive.stateful.st # "pending") =>
              /\ derive.static.st = derive.stateful.st
              /\ derive.static.err = derive.stateful.err
              /\ derive.static.sampler = derive.stateful.sampler
              /\ derive.static.items = derive.stateful.items
              /\ derive.static.st = "ok" =>
                    \A i \in 0..(DrawRange(derive.static) - 1), u \in TableUVals :
                        TableSampleOf(derive.static, 1, "sample", i, u).ret
                          = TableSampleOf(derive.stateful, 1, "sample", i, u).ret

C28_Witness ==
    /\ Expanded
    /\ derive.static.st = "ok"
    /\ derive.stateful.st = "ok"
    /\ Len(enum) >= 2
    /\ derive.finalized[0].weight # derive.finalized[1].weight

====
